---- MODULE Spec2Model ----
(***************************************************************************)
(* A model of scripts/package.py, the PULSAR KiCad library packager.       *)
(*                                                                         *)
(* The file system is the program's state: the asset tree below the        *)
(* repository root, metadata.json, docs/packages.json and the archives     *)
(* PULSAR-KiCad-Lib-<version>.zip.  A path is the sequence of its parts    *)
(* (pathlib's Path.parts); an archive is the sequence of its members.      *)
(***************************************************************************)
EXTENDS Integers, Sequences, FiniteSets, TLC

VARIABLES
    tree,           \* kind ("none", "file", "dir") of every asset path
    meta,           \* metadata.json: [kind, versions, mtime]
    manifest,       \* docs/packages.json: [kind, text, haskey, versions]
    zips,           \* version -> archive written as PULSAR-KiCad-Lib-<version>.zip, or NoZip
    now,            \* the clock, in the 2-second units of a ZIP member's timestamp
    pc,             \* position inside main(), or inside the call under test
    runs,           \* invocations started so far
    version,        \* args.version
    tag,            \* tag as computed at line 154
    install_size,   \* local of main(): result of compute_install_size
    download_size,  \* local of main(): output_zip.stat().st_size
    sha256,         \* local of main(): compute_sha256(output_zip)
    warnings,       \* the WARNING lines printed by the validation block
    exit,           \* process exit status: "none" while running, 0, or 1
    failedAt,       \* the step whose I/O error ended the run ("" when none)
    atStart,        \* snapshot of the files at the start of the run (or call)
    prev,           \* what the previous run wrote, when it ran to the end
    directories,    \* argument list of the compute_install_size call under test
    procs           \* the concurrent update_packages_json calls

vars == <<tree, meta, manifest, zips, now, pc, runs, version, tag, install_size,
          download_size, sha256, warnings, exit, failedAt, atStart, prev,
          directories, procs>>

-----------------------------------------------------------------------------
(* Bounds of the model. *)

\* packaging runs (or calls under test) in one behaviour
MaxRuns == 2
\* clock ticks in one behaviour
MaxClock == 1
\* length of the path list handed to compute_install_size under test
MaxDirs == 2
\* entries of a manifest before the first call under test
MaxLen == 2

Versions == {"1.0.0", "2.0.0"}

-----------------------------------------------------------------------------
(* Paths. *)

\* Path(__file__).resolve()
ScriptFile == <<"repo", "scripts", "package.py">>

Parent(p) == SubSeq(p, 1, Len(p) - 1)

get_repo_root == Parent(Parent(ScriptFile))

\* The "/" operator of pathlib.
Join(p, name) == Append(p, name)

IsPrefix(p, q) == Len(p) <= Len(q) /\ SubSeq(q, 1, Len(p)) = p

\* f"PULSAR-KiCad-Lib-{version}.zip"
ZipName(v) == "PULSAR-KiCad-Lib-" \o v \o ".zip"

output_zip(v) == Join(get_repo_root, ZipName(v))

MetaPath == Join(get_repo_root, "metadata.json")

DocsPath == Join(get_repo_root, "docs")

ManifestPath == Join(DocsPath, "packages.json")

ResourcesPath == Join(get_repo_root, "resources")
SymbolsPath == Join(get_repo_root, "symbols")
FootprintsPath == Join(get_repo_root, "footprints")
ModelsPath == Join(get_repo_root, "3dmodels")

IconPath == Join(ResourcesPath, "icon.png")
SymAPath == Join(SymbolsPath, "a.kicad_sym")
SymBPath == Join(SymbolsPath, "b.kicad_sym")
PrettyPath == Join(FootprintsPath, "PULSAR.pretty")
ModPath == Join(PrettyPath, "y.kicad_mod")
StepPath == Join(ModelsPath, "m.stp")

\* The paths below the four listed directories that the model lets exist.
AssetPaths == {ResourcesPath, IconPath, SymbolsPath, SymAPath, SymBPath,
               FootprintsPath, PrettyPath, ModPath, ModelsPath, StepPath}

\* Every path of the model's file system.
AllPaths == AssetPaths \cup {MetaPath, DocsPath, ManifestPath, Parent(ScriptFile), ScriptFile}
                       \cup {output_zip(v) : v \in Versions}

\* The list built at lines 48-54.
items_to_include == <<MetaPath, ResourcesPath, SymbolsPath, FootprintsPath, ModelsPath>>

\* The list of lines 165-171 without metadata.json.
SizeInputsWithoutMetadata == <<ResourcesPath, SymbolsPath, FootprintsPath, ModelsPath>>

\* The list main() hands to compute_install_size.
size_inputs == <<MetaPath, ResourcesPath, SymbolsPath, FootprintsPath, ModelsPath>>

\* An archive file: whether it exists, and its members in order.
NoZip == [exists |-> FALSE, members |-> <<>>]

ZipFile(members) == [exists |-> TRUE, members |-> members]

-----------------------------------------------------------------------------
(* The file system as the program sees it. *)

Kind(p) ==
    IF p \in AssetPaths THEN tree[p]
    ELSE IF p = MetaPath THEN meta.kind
    ELSE IF p = ManifestPath THEN manifest.kind
    ELSE IF p \in {get_repo_root, DocsPath, Parent(ScriptFile)} THEN "dir"
    ELSE IF p = ScriptFile THEN "file"
    ELSE IF \E v \in Versions : p = output_zip(v) /\ zips[v].exists THEN "file"
    ELSE "none"

is_file(p) == Kind(p) = "file"

is_dir(p) == Kind(p) = "dir"

\* Bytes of metadata.json as json.dump writes it: the fixed fields and one
\* record per element of "versions".
MetaBytes(versions) == 64 + 32 * Len(versions)

\* Bytes of an asset file; the sizes are distinct powers of two, so a sum of
\* sizes names the set of files it was taken over.
AssetBytes(p) ==
    CASE p = IconPath -> 1
      [] p = SymAPath -> 2
      [] p = SymBPath -> 4
      [] p = ModPath -> 8
      [] p = StepPath -> 16
      [] OTHER -> 1024

\* Path.stat().st_size of a regular file that main() measures or archives.
st_size(p) == IF p = MetaPath THEN MetaBytes(meta.versions) ELSE AssetBytes(p)

\* Path.stat().st_mtime; only metadata.json is ever written by the program.
st_mtime(p) == IF p = MetaPath THEN meta.mtime ELSE 0

\* The bytes of a file, as far as the model tells files apart: the document
\* of metadata.json; an asset is told by its path and size alone.
read_bytes(p) == IF p = MetaPath THEN meta.versions ELSE <<>>

\* Path.rglob("*"): everything that exists strictly below d.
rglob(d) == {p \in AllPaths : p # d /\ IsPrefix(d, p) /\ Kind(p) # "none"}


-----------------------------------------------------------------------------
(* Ordering of paths: sorted() compares Path objects part by part, and the    *)
(* parts as strings, by code point.                                         *)

\* The part names of the asset tree in code-point order.
PartOrder == <<"3dmodels", "PULSAR.pretty", "a.kicad_sym", "b.kicad_sym", "footprints",
               "icon.png", "m.stp", "metadata.json", "repo", "resources", "symbols",
               "y.kicad_mod">>

Rank(name) == CHOOSE i \in 1..Len(PartOrder) : PartOrder[i] = name

RECURSIVE PathLess(_, _)
PathLess(p, q) ==
    IF p = <<>> THEN q # <<>>
    ELSE IF q = <<>> THEN FALSE
    ELSE IF Head(p) = Head(q) THEN PathLess(Tail(p), Tail(q))
    ELSE Rank(Head(p)) < Rank(Head(q))

RECURSIVE sorted(_)
sorted(S) ==
    IF S = {} THEN <<>>
    ELSE LET least == CHOOSE p \in S : \A q \in S \ {p} : PathLess(p, q)
         IN <<least>> \o sorted(S \ {least})

-----------------------------------------------------------------------------
(* compute_install_size *)

RECURSIVE SumSizes(_)
SumSizes(S) ==
    IF S = {} THEN 0
    ELSE LET f == CHOOSE p \in S : TRUE
         IN st_size(f) + SumSizes(S \ {f})

\* The body of the for loop without its elif branch.
SizeOfItemDirsOnly(d) ==
    IF is_dir(d) THEN SumSizes({f \in rglob(d) : is_file(f)})
    ELSE 0

\* The contribution of one element of the list (the body of the for loop).
SizeOfItem(d) ==
    IF is_dir(d) THEN SumSizes({f \in rglob(d) : is_file(f)})
    ELSE IF is_file(d) THEN st_size(d)
    ELSE 0

RECURSIVE compute_install_size(_)
compute_install_size(dirs) ==
    IF dirs = <<>> THEN 0
    ELSE SizeOfItem(Head(dirs)) + compute_install_size(Tail(dirs))

-----------------------------------------------------------------------------
(* create_zip_archive *)

\* Path.relative_to(root): the parts after those of root.
relative_to(p, root) == SubSeq(p, Len(root) + 1, Len(p))

\* Path.as_posix(): the parts joined by "/".  A name is the sequence of its
\* parts and separators, so that a prefix of it can be taken.
RECURSIVE as_posix(_)
as_posix(parts) ==
    IF Len(parts) <= 1 THEN parts
    ELSE <<Head(parts), "/">> \o as_posix(Tail(parts))

\* zf.write(file_path, arcname): the member records the file's name in the
\* archive, its bytes and its modification time (ZipInfo.from_file).
ZipMember(p, root) ==
    [name |-> as_posix(relative_to(p, root)),
     size |-> st_size(p),
     mtime |-> st_mtime(p),
     content |-> read_bytes(p)]

\* The loop of lines 62-65 without its is_file test.
RECURSIVE WriteFilesUnfiltered(_, _)
WriteFilesUnfiltered(paths, root) ==
    IF paths = <<>> THEN <<>>
    ELSE <<ZipMember(Head(paths), root)>> \o WriteFilesUnfiltered(Tail(paths), root)

RECURSIVE WriteFiles(_, _)
WriteFiles(paths, root) ==
    IF paths = <<>> THEN <<>>
    ELSE IF is_file(Head(paths))
         THEN <<ZipMember(Head(paths), root)>> \o WriteFiles(Tail(paths), root)
         ELSE WriteFiles(Tail(paths), root)

\* What one element of items_to_include adds (lines 58-65).
MembersOfItem(item, root) ==
    IF is_file(item) THEN <<ZipMember(item, root)>>
    ELSE IF is_dir(item) THEN WriteFiles(sorted(rglob(item)), root)
    ELSE <<>>

RECURSIVE ZipItems(_, _)
ZipItems(items, root) ==
    IF items = <<>> THEN <<>>
    ELSE MembersOfItem(Head(items), root) \o ZipItems(Tail(items), root)

\* The archive written to output_path.
create_zip_archive(root) == ZipItems(items_to_include, root)

\* zf.namelist()
namelist(archive) == [i \in 1..Len(archive) |-> archive[i].name]

-----------------------------------------------------------------------------
(* The archive file: its size and its hash. *)

VersionCode(v) == IF v = "1.0.0" THEN 1 ELSE 2

RECURSIVE ContentCode(_)
ContentCode(c) ==
    IF c = <<>> THEN 0
    ELSE VersionCode(Head(c).version) + (IF Head(c).status = "stable" THEN 0 ELSE 1)
         + 3 * ContentCode(Tail(c))

RECURSIVE NameCode(_)
NameCode(n) ==
    IF n = <<>> THEN 0
    ELSE (IF Head(n) = "/" THEN 47 ELSE Rank(Head(n))) + 5 * NameCode(Tail(n))

\* The bytes one member occupies in the archive: local header, name, deflated
\* data, central directory record.
MemberBytes(m) == 76 + 2 * Len(m.name) + (m.size + 1) \div 2

RECURSIVE ZipBytes(_)
ZipBytes(archive) ==
    IF archive = <<>> THEN 22
    ELSE MemberBytes(Head(archive)) + ZipBytes(Tail(archive))

\* hashlib.sha256 over the whole file, read in 8192-byte chunks: a digest of
\* every member's name, timestamp and data, in member order.
RECURSIVE Digest(_, _)
Digest(h, archive) ==
    IF archive = <<>> THEN h
    ELSE LET m == Head(archive)
         IN Digest((h * 31 + NameCode(m.name) + 7 * m.mtime + 11 * ContentCode(m.content)
                    + m.size) % 65536,
                   Tail(archive))

compute_sha256(archive) == Digest(17, archive)


-----------------------------------------------------------------------------
(* update_metadata_json and update_packages_json on the loaded documents. *)

VersionRecord(v) == [version |-> v, status |-> "stable", kicad_version |-> "8.0"]

\* update_metadata_json that keeps the records it finds.
UpdateMetadataKeepHistory(versions, v) == Append(versions, VersionRecord(v))

\* The document written back at lines 132-142.
update_metadata_json(versions, v) == <<VersionRecord(v)>>

download_url(v, t) ==
    "https://github.com/Alex-C-EE/PULSAR-KiCad-Lib/releases/download/" \o t \o "/"
        \o "PULSAR-KiCad-Lib-" \o v \o ".zip"

new_version_entry(v, t, sha, dsize, isize) ==
    [version |-> v,
     status |-> "stable",
     kicad_version |-> "8.0",
     download_url |-> download_url(v, t),
     download_sha256 |-> sha,
     download_size |-> dsize,
     install_size |-> isize]

Matches(versions, v) == {i \in 1..Len(versions) : versions[i].version = v}

Least(S) == CHOOSE i \in S : \A j \in S : i <= j

\* Upsert that drops the matching entry and appends the new one.
UpsertMoveToEnd(versions, entry) ==
    Append(SelectSeq(versions, LAMBDA x : x.version # entry.version), entry)

\* Upsert whose scan never matches.
UpsertAppendAlways(versions, entry) == Append(versions, entry)

\* Lines 110-117: replace the first entry of that version, or append.
Upsert(versions, entry) ==
    IF Matches(versions, entry.version) # {}
    THEN [versions EXCEPT ![Least(Matches(versions, entry.version))] = entry]
    ELSE Append(versions, entry)

\* pkg.get with a key the document never has.
GetVersionsWrongKey(doc) == <<>>

\* pkg.get("versions", [])
get_versions(doc) == IF doc.haskey THEN doc.versions ELSE <<>>

\* The document update_packages_json writes back, from the one it loaded.
update_packages_json(doc, v, t, sha, dsize, isize) ==
    [doc EXCEPT !.haskey = TRUE,
                !.versions = Upsert(get_versions(doc), new_version_entry(v, t, sha, dsize, isize))]

\* open(...) and json.load succeed on the file.
Loadable(doc) == doc.kind = "file" /\ doc.text = "json"

-----------------------------------------------------------------------------
(* The validation block of main(). *)

required == << <<"metadata.json">> >>

required_prefixes == << <<"symbols", "/">>, <<"footprints", "/">> >>

Range(seq) == {seq[i] : i \in 1..Len(seq)}

\* A prefix test that compares the whole name.
StartswithWholeName(n, prefix) == n = prefix

\* str.startswith
startswith(n, prefix) == Len(n) >= Len(prefix) /\ SubSeq(n, 1, Len(prefix)) = prefix

MissingFiles(names) == {req \in Range(required) : req \notin Range(names)}

MissingPrefixes(names) ==
    {prefix \in Range(required_prefixes) : ~ \E n \in Range(names) : startswith(n, prefix)}

\* The expression of lines 200-204.
LooksGood(names) ==
    /\ \A req \in Range(required) : req \in Range(names)
    /\ \A q \in Range(required_prefixes) : \E n \in Range(names) : startswith(n, q)

\* The WARNING lines printed for a name list.
Validate(names) ==
    {<<"Missing required file", req>> : req \in MissingFiles(names)}
        \cup {<<"Missing required directory", q>> : q \in MissingPrefixes(names)}
        \cup (IF LooksGood(names) THEN {} ELSE {<<"Archive may have issues">>})


-----------------------------------------------------------------------------
(* The states the files can be in when the program starts. *)

BoundedSeqs(S, n) == UNION {[1..k -> S] : k \in 0..n}

KindsOf(p) ==
    IF p \in {IconPath, SymAPath, SymBPath, ModPath, StepPath} THEN {"none", "file"}
    ELSE IF p = SymbolsPath THEN {"none", "file", "dir"}
    ELSE {"none", "dir"}

\* Asset trees: a path exists only inside a directory that exists.
Trees ==
    {t \in [AssetPaths -> {"none", "file", "dir"}] :
        \A p \in AssetPaths :
            /\ t[p] \in KindsOf(p)
            /\ (t[p] # "none" /\ Parent(p) \in AssetPaths) => t[Parent(p)] = "dir"}

\* The trees of the packaging runs: icon and 3D model in place, the symbol
\* and footprint directories absent, empty, a plain file, or populated.
MainTrees ==
    {t \in Trees :
        /\ t[IconPath] = "file"
        /\ t[StepPath] = "file"
        /\ t[SymAPath] = t[SymBPath]}

NoMeta == [kind |-> "none", versions |-> <<>>, mtime |-> 0]

MetaFile(versions) == [kind |-> "file", versions |-> versions, mtime |-> 0]

MainMetas ==
    {NoMeta,
     MetaFile(<<VersionRecord("1.0.0")>>),
     MetaFile(<<[version |-> "0.9.0", status |-> "testing", kicad_version |-> "7.0"],
                VersionRecord("1.0.0")>>)}

KnownVersions == Versions \cup {"0.9.0"}

\* Entries written by earlier releases.
OldEntries ==
    {new_version_entry(v, "v" \o v, sha, 400, 800) : v \in KnownVersions, sha \in {101, 303}}

NoManifest == [kind |-> "none", text |-> "empty", haskey |-> FALSE, versions |-> <<>>]

ManifestFile(haskey, versions) ==
    [kind |-> "file", text |-> "json", haskey |-> haskey, versions |-> versions]

MainManifests ==
    {NoManifest,
     ManifestFile(FALSE, <<>>),
     ManifestFile(TRUE, <<>>),
     ManifestFile(TRUE, <<new_version_entry("0.9.0", "v0.9.0", 101, 400, 800),
                          new_version_entry("1.0.0", "v1.0.0", 303, 400, 800)>>)}

NoSnapshot == [meta |-> NoMeta, manifest |-> NoManifest, zips |-> [v \in Versions |-> NoZip]]

NoPrev == [version |-> "", archive |-> NoZip, sha256 |-> 0, download_size |-> 0]

\* The variables of main() before a run.
LocalsIdle ==
    /\ version = ""
    /\ tag = ""
    /\ install_size = 0
    /\ download_size = 0
    /\ sha256 = 0
    /\ warnings = {}
    /\ exit = "none"
    /\ failedAt = ""
    /\ atStart = NoSnapshot
    /\ prev = NoPrev

-----------------------------------------------------------------------------
(* main(): one action per step. *)

\* The values of --tag; "" stands for the option left out.
TagArgs == {"", "rc1"}

Init ==
    /\ tree \in MainTrees
    /\ meta \in MainMetas
    /\ manifest \in MainManifests
    /\ zips = [v \in Versions |-> NoZip]
    /\ now = 0
    /\ pc = "idle"
    /\ runs = 0
    /\ LocalsIdle
    /\ directories = <<>>
    /\ procs = <<>>

\* Lines 148-159: the arguments are parsed and the locals set.
Start(v, t) ==
    /\ pc \in {"idle", "done", "failed"}
    /\ runs < MaxRuns
    /\ runs' = runs + 1
    /\ version' = v
    /\ tag' = IF t # "" THEN t ELSE "v" \o v
    /\ \E later \in {now, now + 1} : later <= MaxClock /\ now' = later
    /\ pc' = "update_metadata"
    /\ install_size' = 0
    /\ download_size' = 0
    /\ sha256' = 0
    /\ warnings' = {}
    /\ exit' = "none"
    /\ failedAt' = ""
    /\ atStart' = [meta |-> meta, manifest |-> manifest, zips |-> zips]
    /\ prev' = IF pc = "done"
               THEN [version |-> version, archive |-> zips[version],
                     sha256 |-> sha256, download_size |-> download_size]
               ELSE NoPrev
    /\ UNCHANGED <<tree, meta, manifest, zips, directories, procs>>

\* An uncaught exception: traceback, exit status 1.
Abort(step) ==
    /\ pc' = "failed"
    /\ exit' = 1
    /\ failedAt' = step
    /\ UNCHANGED <<tree, meta, manifest, zips, now, runs, version, tag, install_size,
                   download_size, sha256, warnings, atStart, prev, directories, procs>>

\* Line 162.
UpdateMetadata ==
    /\ pc = "update_metadata"
    /\ meta.kind = "file"
    /\ meta' = [meta EXCEPT !.versions = update_metadata_json(meta.versions, version),
                            !.mtime = now]
    /\ pc' = "install_size"
    /\ UNCHANGED <<tree, manifest, zips, now, runs, version, tag, install_size, download_size,
                   sha256, warnings, exit, failedAt, atStart, prev, directories, procs>>

\* metadata.json is missing, or cannot be opened for reading or for writing.
UpdateMetadataFails ==
    /\ pc = "update_metadata"
    /\ Abort("update_metadata")

\* Lines 165-171.
ComputeInstallSize ==
    /\ pc = "install_size"
    /\ install_size' = compute_install_size(size_inputs)
    /\ pc' = "create_zip"
    /\ UNCHANGED <<tree, meta, manifest, zips, now, runs, version, tag, download_size,
                   sha256, warnings, exit, failedAt, atStart, prev, directories, procs>>

\* Line 174.
CreateZip ==
    /\ pc = "create_zip"
    /\ zips' = [zips EXCEPT ![version] = ZipFile(create_zip_archive(get_repo_root))]
    /\ pc' = "hash"
    /\ UNCHANGED <<tree, meta, manifest, now, runs, version, tag, install_size, download_size,
                   sha256, warnings, exit, failedAt, atStart, prev, directories, procs>>

\* The output path cannot be opened for writing.
CreateZipFails ==
    /\ pc = "create_zip"
    /\ Abort("create_zip")

\* Lines 175-176.
HashZip ==
    /\ pc = "hash"
    /\ download_size' = ZipBytes(zips[version].members)
    /\ sha256' = compute_sha256(zips[version].members)
    /\ pc' = "update_packages"
    /\ UNCHANGED <<tree, meta, manifest, zips, now, runs, version, tag, install_size,
                   warnings, exit, failedAt, atStart, prev, directories, procs>>

\* Line 185.
UpdatePackages ==
    /\ pc = "update_packages"
    /\ Loadable(manifest)
    /\ manifest' = update_packages_json(manifest, version, tag, sha256, download_size,
                                        install_size)
    /\ pc' = "validate"
    /\ UNCHANGED <<tree, meta, zips, now, runs, version, tag, install_size, download_size,
                   sha256, warnings, exit, failedAt, atStart, prev, directories, procs>>

\* The exception of update_packages_json caught and the run carried on.
UpdatePackagesFailsSwallowed ==
    /\ pc = "update_packages"
    /\ pc' = "validate"
    /\ UNCHANGED <<tree, meta, manifest, zips, now, runs, version, tag, install_size,
                   download_size, sha256, warnings, exit, failedAt, atStart, prev,
                   directories, procs>>

\* docs/packages.json is missing, or cannot be read or written.
UpdatePackagesFails ==
    /\ pc = "update_packages"
    /\ Abort("update_packages")

\* Lines 187-206: validation, the "Done!" line, normal exit.
ValidateZip ==
    /\ pc = "validate"
    /\ warnings' = Validate(namelist(zips[version].members))
    /\ pc' = "done"
    /\ exit' = 0
    /\ UNCHANGED <<tree, meta, manifest, zips, now, runs, version, tag, install_size,
                   download_size, sha256, failedAt, atStart, prev, directories, procs>>

Next ==
    \/ \E v \in Versions, t \in TagArgs : Start(v, t)
    \/ UpdateMetadata
    \/ UpdateMetadataFails
    \/ ComputeInstallSize
    \/ CreateZip
    \/ CreateZipFails
    \/ HashZip
    \/ UpdatePackages
    \/ UpdatePackagesFails
    \/ ValidateZip

Spec == Init /\ [][Next]_vars


-----------------------------------------------------------------------------
(* compute_install_size and create_zip_archive called on their own, on      *)
(* every tree and every short list of paths.                                *)

MissingPath == Join(get_repo_root, "missing")

InputPaths == {MetaPath, SymbolsPath, SymAPath, PrettyPath, MissingPath}

TreeInit ==
    /\ tree \in Trees
    /\ meta \in {NoMeta, MetaFile(<<VersionRecord("1.0.0")>>)}
    /\ manifest = ManifestFile(TRUE, <<>>)
    /\ zips = [v \in Versions |-> NoZip]
    /\ now = 0
    /\ pc = "call_size"
    /\ runs = 0
    /\ LocalsIdle
    /\ directories \in BoundedSeqs(InputPaths, MaxDirs)
    /\ procs = <<>>

CallComputeInstallSize ==
    /\ pc = "call_size"
    /\ install_size' = compute_install_size(directories)
    /\ pc' = "call_zip"
    /\ UNCHANGED <<tree, meta, manifest, zips, now, runs, version, tag, download_size,
                   sha256, warnings, exit, failedAt, atStart, prev, directories, procs>>

CallCreateZipArchive ==
    /\ pc = "call_zip"
    /\ zips' = [zips EXCEPT !["1.0.0"] = ZipFile(create_zip_archive(get_repo_root))]
    /\ pc' = "returned"
    /\ UNCHANGED <<tree, meta, manifest, now, runs, version, tag, install_size, download_size,
                   sha256, warnings, exit, failedAt, atStart, prev, directories, procs>>

TreeNext == CallComputeInstallSize \/ CallCreateZipArchive

SpecTree == TreeInit /\ [][TreeNext]_vars

-----------------------------------------------------------------------------
(* update_packages_json called on its own, again and again, on every short  *)
(* version list.                                                            *)

ManifestInit ==
    /\ tree \in {t \in Trees : \A p \in AssetPaths : t[p] = "none"}
    /\ meta = NoMeta
    /\ \E versions \in BoundedSeqs(OldEntries, MaxLen), haskey \in BOOLEAN :
          /\ ~haskey => versions = <<>>
          /\ manifest = ManifestFile(haskey, versions)
    /\ zips = [v \in Versions |-> NoZip]
    /\ now = 0
    /\ pc = "call_update"
    /\ runs = 0
    /\ LocalsIdle
    /\ directories = <<>>
    /\ procs = <<>>

CallUpdatePackagesJson(v, sha) ==
    /\ pc \in {"call_update", "updated"}
    /\ runs < MaxRuns
    /\ runs' = runs + 1
    /\ version' = v
    /\ tag' = "v" \o v
    /\ sha256' = sha
    /\ download_size' = 500
    /\ install_size' = 900
    /\ atStart' = [atStart EXCEPT !.manifest = manifest]
    /\ manifest' = update_packages_json(manifest, v, "v" \o v, sha, 500, 900)
    /\ pc' = "updated"
    /\ UNCHANGED <<tree, meta, zips, now, warnings, exit, failedAt, prev, directories, procs>>

ManifestNext == \E v \in KnownVersions, sha \in {101, 202} : CallUpdatePackagesJson(v, sha)

SpecManifest == ManifestInit /\ [][ManifestNext]_vars

-----------------------------------------------------------------------------
(* Two update_packages_json calls running at once on one docs/packages.json. *)

Procs == {1, 2}

Other(p) == 3 - p

Truncated == [kind |-> "file", text |-> "empty", haskey |-> FALSE, versions |-> <<>>]

Garbage == [kind |-> "file", text |-> "garbage", haskey |-> FALSE, versions |-> <<>>]

ConcInit ==
    /\ tree \in {t \in Trees : \A p \in AssetPaths : t[p] = "none"}
    /\ meta = NoMeta
    /\ manifest \in {ManifestFile(TRUE, versions) : versions \in BoundedSeqs(OldEntries, MaxLen)}
    /\ zips = [v \in Versions |-> NoZip]
    /\ now = 0
    /\ pc = "concurrent"
    /\ runs = 0
    /\ LocalsIdle
    /\ directories = <<>>
    /\ \E v1 \in KnownVersions, v2 \in KnownVersions :
          procs = <<[pc |-> "load", version |-> v1, sha256 |-> 111, data |-> NoManifest,
                     otherAtLoad |-> ""],
                    [pc |-> "load", version |-> v2, sha256 |-> 222, data |-> NoManifest,
                     otherAtLoad |-> ""]>>

ConcUnchanged ==
    UNCHANGED <<tree, meta, zips, now, pc, runs, version, tag, install_size, download_size,
                sha256, warnings, exit, failedAt, atStart, prev, directories>>

\* Lines 88-118: the document is loaded and changed in memory.
Load(p) ==
    /\ procs[p].pc = "load"
    /\ Loadable(manifest)
    /\ procs' = [procs EXCEPT
                   ![p].pc = "open",
                   ![p].otherAtLoad = procs[Other(p)].pc,
                   ![p].data = update_packages_json(manifest, procs[p].version,
                                                    "v" \o procs[p].version,
                                                    procs[p].sha256, 500, 900)]
    /\ UNCHANGED manifest
    /\ ConcUnchanged

\* json.load on a file the other call has truncated or mangled.
LoadFails(p) ==
    /\ procs[p].pc = "load"
    /\ ~Loadable(manifest)
    /\ procs' = [procs EXCEPT ![p].pc = "failed", ![p].otherAtLoad = procs[Other(p)].pc]
    /\ UNCHANGED manifest
    /\ ConcUnchanged

\* Line 120: open(..., "w") empties the file.
OpenForWrite(p) ==
    /\ procs[p].pc = "open"
    /\ manifest' = Truncated
    /\ procs' = [procs EXCEPT ![p].pc = "dump"]
    /\ ConcUnchanged

\* Lines 121-122: the document is written from offset 0 and the file closed.
\* Onto an empty file that leaves the document; onto what the other call
\* wrote meanwhile it leaves the document, or its bytes followed by the
\* other's tail.
Dump(p) ==
    /\ procs[p].pc = "dump"
    /\ manifest' \in (IF manifest.text = "empty"
                      THEN {procs[p].data}
                      ELSE {procs[p].data, Garbage})
    /\ procs' = [procs EXCEPT ![p].pc = "done"]
    /\ ConcUnchanged

ConcNext == \E p \in Procs : Load(p) \/ LoadFails(p) \/ OpenForWrite(p) \/ Dump(p)

SpecConc == ConcInit /\ [][ConcNext]_vars


-----------------------------------------------------------------------------
(* Properties. *)

NoDuplicates(versions) ==
    \A i, j \in 1..Len(versions) : versions[i].version = versions[j].version => i = j

\* The list the call under test loaded, the list it wrote, and its entry.
ListBefore == get_versions(atStart.manifest)

ListAfter == manifest.versions

EntryOfCall == new_version_entry(version, tag, sha256, download_size, install_size)

\* C1: update_packages_json is an upsert keyed by version on the version
\* list.  If an entry of the list has the version, the result has the same
\* length, the new entry sits where the first such entry was, and every other
\* entry is unchanged in its place; otherwise the result is the list with the
\* new entry appended.  Calling again with the same arguments changes nothing.
C1_Upsert ==
    pc = "updated" =>
        /\ (\E k \in 1..Len(ListBefore) : ListBefore[k].version = version) =>
              /\ Len(ListAfter) = Len(ListBefore)
              /\ \E k \in 1..Len(ListBefore) :
                    /\ ListBefore[k].version = version
                    /\ \A j \in 1..(k - 1) : ListBefore[j].version # version
                    /\ ListAfter[k] = EntryOfCall
                    /\ \A j \in 1..Len(ListBefore) : j # k => ListAfter[j] = ListBefore[j]
        /\ (\A k \in 1..Len(ListBefore) : ListBefore[k].version # version) =>
              /\ Len(ListAfter) = Len(ListBefore) + 1
              /\ ListAfter[Len(ListAfter)] = EntryOfCall
              /\ \A j \in 1..Len(ListBefore) : ListAfter[j] = ListBefore[j]
        /\ update_packages_json(manifest, version, tag, sha256, download_size,
                                install_size) = manifest

\* Versions [A, B] upserted with B: B replaced in second place, A untouched.
C1_Witness ==
    /\ pc = "updated"
    /\ Len(ListBefore) = 2
    /\ ListBefore[1].version # version
    /\ ListBefore[2].version = version
    /\ ListAfter[2] # ListBefore[2]
    /\ ListAfter[2] = EntryOfCall

\* C2 as stated: after update_packages_json with version V on any manifest
\* that loads, exactly one entry of the list has version V and it carries the
\* new data, and no two entries share a version.
C2_UniqueOnAnyManifest ==
    pc = "updated" =>
        /\ Cardinality(Matches(ListAfter, version)) = 1
        /\ \A i \in Matches(ListAfter, version) : ListAfter[i] = EntryOfCall
        /\ NoDuplicates(ListAfter)

\* C2 as amended: on a manifest whose entries have pairwise distinct versions,
\* after update_packages_json with version V exactly one entry has version V
\* and carries the new data, and the versions are still pairwise distinct.
C2_UniquePreserved ==
    (pc = "updated" /\ NoDuplicates(ListBefore)) =>
        /\ Cardinality(Matches(ListAfter, version)) = 1
        /\ \A i \in Matches(ListAfter, version) : ListAfter[i] = EntryOfCall
        /\ NoDuplicates(ListAfter)

\* A second call on a duplicate-free list of two that already holds V.
C2_Witness ==
    /\ pc = "updated"
    /\ runs = 2
    /\ NoDuplicates(ListBefore)
    /\ Len(ListBefore) = 2
    /\ Matches(ListBefore, version) # {}

\* The members of an archive named metadata.json.
MetaMembers(archive) == {i \in 1..Len(archive) : archive[i].name = <<"metadata.json">>}

RunPastMetadata ==
    \/ pc \in {"install_size", "create_zip", "hash", "update_packages", "validate", "done"}
    \/ pc = "failed" /\ failedAt \in {"create_zip", "update_packages"}

\* C3: the in-archive metadata keeps no history.  Once a run has rewritten
\* metadata.json its versions list has exactly one element, naming that
\* run's version with status "stable" and the fixed platform tag (a run that
\* ends before the rewrite leaves the file as it was); and the metadata.json
\* stored in the archive of a version names exactly that version.
C3_MetadataSingleVersion ==
    /\ RunPastMetadata =>
          /\ Len(meta.versions) = 1
          /\ meta.versions[1] = [version |-> version, status |-> "stable",
                                 kicad_version |-> "8.0"]
    /\ (pc = "failed" /\ failedAt = "update_metadata") => meta = atStart.meta
    /\ \A v \in Versions :
          zips[v].exists =>
              /\ Cardinality(MetaMembers(zips[v].members)) = 1
              /\ \A i \in MetaMembers(zips[v].members) :
                    zips[v].members[i].content = <<[version |-> v, status |-> "stable",
                                            kicad_version |-> "8.0"]>>

\* A second run, for another version than the first, has finished.
C3_Witness ==
    /\ pc = "done"
    /\ runs = 2
    /\ prev.version = "1.0.0"
    /\ version = "2.0.0"
    /\ zips["1.0.0"].exists
    /\ zips["2.0.0"].exists

\* A name begins with "<dir>/".
Under(n, dir) == Len(n) >= 2 /\ n[1] = dir /\ n[2] = "/"

\* What the validation has to report for a list of names.
WarningDue(names) ==
    \/ \A i \in 1..Len(names) : names[i] # <<"metadata.json">>
    \/ \A i \in 1..Len(names) : ~Under(names[i], "symbols")
    \/ \A i \in 1..Len(names) : ~Under(names[i], "footprints")

NameSamples ==
    {<<"metadata.json">>, <<"symbols">>, <<"symbols", "/", "a.kicad_sym">>,
     <<"footprints", "/", "PULSAR.pretty", "/", "y.kicad_mod">>,
     <<"resources", "/", "icon.png">>}

\* Of every list of up to three of the sample names, Validate prints a
\* warning exactly when one is due.
EveryNameListRight ==
    \A names \in BoundedSeqs(NameSamples, 3) : (Validate(names) # {}) <=> WarningDue(names)

\* C4: validation is never fatal.  From the validation step the run can only
\* go on to "Done" with exit status 0, the archive still in place, and
\* warnings printed exactly when metadata.json is no member or no member
\* name begins with "symbols/" or with "footprints/"; the same holds of
\* every list of member names.
C4_ValidationNeverFatal ==
    /\ [][pc = "validate" =>
            /\ pc' = "done"
            /\ exit' = 0
            /\ zips' = zips
            /\ zips[version].exists
            /\ (warnings' # {}) <=> WarningDue(namelist(zips[version].members))]_vars
    /\ [](pc = "done" => exit = 0 /\ zips[version].exists)
    /\ []EveryNameListRight

\* The archive has no member under footprints/: warned, finished, exit 0.
C4_Witness ==
    /\ pc = "done"
    /\ exit = 0
    /\ tree[FootprintsPath] = "none"
    /\ warnings # {}
    /\ zips[version].exists

\* C5: a fatal I/O error ends the run where it occurs.  When metadata.json
\* or docs/packages.json cannot be loaded the step fails; a failed run has
\* exit status 1 and takes no further step (only a new invocation follows);
\* a failure on metadata.json leaves metadata.json, the archives and the
\* manifest as they were; a failure on the manifest comes when the archive
\* is written, leaves the manifest as it was and precedes validation.
C5_FatalErrorsAbort ==
    /\ [](pc = "failed" =>
            /\ exit = 1
            /\ warnings = {}
            /\ failedAt = "update_metadata" =>
                  /\ meta = atStart.meta
                  /\ zips = atStart.zips
                  /\ manifest = atStart.manifest
            /\ failedAt = "update_packages" =>
                  /\ manifest = atStart.manifest
                  /\ zips[version].exists)
    /\ [][(pc = "update_metadata" /\ meta.kind # "file") => pc' = "failed"]_vars
    /\ [][(pc = "update_packages" /\ ~Loadable(manifest)) => pc' = "failed"]_vars
    /\ [][pc = "failed" => (pc' = "update_metadata" /\ runs' = runs + 1)]_vars
    /\ [][pc' = "done" => pc = "validate"]_vars

\* docs/packages.json is missing: the run fails after writing the archive.
C5_Witness ==
    /\ pc = "failed"
    /\ failedAt = "update_packages"
    /\ manifest.kind = "none"
    /\ zips[version].exists
    /\ exit = 1


\* The regular files at or under one of the paths of a list.
ReachableFiles(dirs) ==
    {f \in AllPaths \cup Range(dirs) : is_file(f) /\ \E i \in 1..Len(dirs) : IsPrefix(dirs[i], f)}

\* The list with two of its places exchanged.
Swapped(dirs, i, j) == [dirs EXCEPT ![i] = dirs[j], ![j] = dirs[i]]

\* C6 as stated: for every list of paths (files, directories, missing paths,
\* overlapping or repeated entries) compute_install_size returns the sum of
\* the sizes of the regular files reachable from the list, each counted
\* once; the result does not depend on the order of the list.
C6_EachFileCountedOnce ==
    pc # "call_size" =>
        /\ install_size = SumSizes(ReachableFiles(directories))
        /\ \A i, j \in 1..Len(directories) :
              compute_install_size(Swapped(directories, i, j)) = install_size

\* The entries of a list at or above a path.
EntriesReaching(dirs, f) == {i \in 1..Len(dirs) : IsPrefix(dirs[i], f)}

\* The sizes of the files of S, each taken once per entry that reaches it.
RECURSIVE SumPerEntry(_, _)
SumPerEntry(S, dirs) ==
    IF S = {} THEN 0
    ELSE LET f == CHOOSE p \in S : TRUE
         IN st_size(f) * Cardinality(EntriesReaching(dirs, f)) + SumPerEntry(S \ {f}, dirs)

\* No entry of the list is another entry or lies under one.
NoOverlap(dirs) == \A i, j \in 1..Len(dirs) : i # j => ~IsPrefix(dirs[i], dirs[j])

\* C6 as amended: compute_install_size returns the sum, over the entries of
\* the list, of the sizes of the regular files at or under the entry, so a
\* file is counted once for every entry that reaches it, and once when no
\* two entries overlap; a missing path adds nothing; the result does not
\* depend on the order of the list.
C6_CountedOncePerEntry ==
    pc # "call_size" =>
        /\ install_size = SumPerEntry(ReachableFiles(directories), directories)
        /\ NoOverlap(directories) => install_size = SumSizes(ReachableFiles(directories))
        /\ install_size =
              compute_install_size(SelectSeq(directories, LAMBDA d : Kind(d) # "none"))
        /\ \A i, j \in 1..Len(directories) :
              compute_install_size(Swapped(directories, i, j)) = install_size

\* The symbols directory and a file inside it, both on the list.
C6_Witness ==
    /\ pc # "call_size"
    /\ directories = <<SymbolsPath, SymAPath>>
    /\ tree[SymAPath] = "file"
    /\ tree[SymBPath] = "file"
    /\ install_size = 2 * st_size(SymAPath) + st_size(SymBPath)

\* The name an archive member must have for a file of the model.
ExpectedName(f) ==
    CASE f = MetaPath -> <<"metadata.json">>
      [] f = SymbolsPath -> <<"symbols">>
      [] f = IconPath -> <<"resources", "/", "icon.png">>
      [] f = SymAPath -> <<"symbols", "/", "a.kicad_sym">>
      [] f = SymBPath -> <<"symbols", "/", "b.kicad_sym">>
      [] f = ModPath -> <<"footprints", "/", "PULSAR.pretty", "/", "y.kicad_mod">>
      [] f = StepPath -> <<"3dmodels", "/", "m.stp">>
      [] OTHER -> <<"not to be archived">>

\* The regular files at or under the five listed paths.
ListedFiles ==
    {f \in AllPaths :
        /\ is_file(f)
        /\ \E top \in {MetaPath, ResourcesPath, SymbolsPath, FootprintsPath, ModelsPath} :
              IsPrefix(top, f)}

\* C7: create_zip_archive adds exactly the regular files at or under the five
\* listed paths: each is exactly one member, named by its forward-slash path
\* relative to the root; nothing else is a member; a listed path that is
\* neither file nor directory adds nothing.
C7_ExactlyListedFiles ==
    pc = "returned" =>
        LET archive == zips["1.0.0"].members
        IN /\ \A f \in ListedFiles :
                 Cardinality({i \in 1..Len(archive) : archive[i].name = ExpectedName(f)}) = 1
           /\ \A i \in 1..Len(archive) : \E f \in ListedFiles : archive[i].name = ExpectedName(f)
           /\ \A f \in AllPaths \ ListedFiles :
                 \A i \in 1..Len(archive) : archive[i].name # as_posix(relative_to(f, get_repo_root))

\* No symbols directory, a footprint file two levels down, metadata.json.
C7_Witness ==
    /\ pc = "returned"
    /\ tree[SymbolsPath] = "none"
    /\ tree[ModPath] = "file"
    /\ tree[ResourcesPath] = "dir"
    /\ meta.kind = "file"
    /\ Len(zips["1.0.0"].members) >= 2

\* C8 as stated: packaging twice with nothing changed in between gives
\* byte-identical archives, hence the same hash and download size.
C8_SameArchiveTwice ==
    (pc = "done" /\ prev.version = version) =>
        /\ zips[version] = prev.archive
        /\ sha256 = prev.sha256
        /\ download_size = prev.download_size

ConcDone == \A p \in Procs : procs[p].pc = "done"

\* One call had returned before the other loaded the document.
ConcOneAfterTheOther == \E p \in Procs : procs[p].otherAtLoad = "done"

\* Each call loaded the document before the other opened it for writing.
ConcBothLoadedFirst == \A p \in Procs : procs[p].otherAtLoad \in {"load", "open"}

HasEntryOf(p) ==
    \E i \in 1..Len(manifest.versions) :
        /\ manifest.versions[i].version = procs[p].version
        /\ manifest.versions[i].download_sha256 = procs[p].sha256

\* C9: two update_packages_json calls with distinct versions on one manifest
\* are not coordinated.  Run one after the other they leave both entries;
\* when both load the document before either writes it back, a manifest that
\* still parses holds the entry of only one of them.
C9_LostUpdate ==
    (ConcDone /\ procs[1].version # procs[2].version) =>
        /\ ConcOneAfterTheOther => (HasEntryOf(1) /\ HasEntryOf(2))
        /\ (ConcBothLoadedFirst /\ Loadable(manifest)) => (HasEntryOf(1) # HasEntryOf(2))

\* Both calls returned, both had loaded before either wrote, one entry is lost.
C9_Witness ==
    /\ ConcDone
    /\ procs[1].version # procs[2].version
    /\ ConcBothLoadedFirst
    /\ Loadable(manifest)
    /\ HasEntryOf(2)
    /\ ~HasEntryOf(1)

RECURSIVE SumMemberSizes(_)
SumMemberSizes(archive) ==
    IF archive = <<>> THEN 0
    ELSE Head(archive).size + SumMemberSizes(Tail(archive))

\* C10: at the end of a successful run for version V the manifest entry of V
\* describes the archive on disk: its hash and download size are those of
\* PULSAR-KiCad-Lib-V.zip as it is then, and its install size is the sum of
\* the sizes of the archive's members, metadata.json as rewritten included.
C10_EntryDescribesArchive ==
    pc = "done" =>
        /\ Matches(manifest.versions, version) # {}
        /\ LET e == manifest.versions[Least(Matches(manifest.versions, version))]
               archive == zips[version].members
           IN /\ zips[version].exists
              /\ e.download_sha256 = compute_sha256(archive)
              /\ e.download_size = ZipBytes(archive)
              /\ e.install_size = SumMemberSizes(archive)
              /\ \A i \in MetaMembers(archive) : archive[i].size = MetaBytes(meta.versions)
              /\ e.install_size = SumSizes(ListedFiles)

\* A finished run on a tree whose metadata.json shrank when rewritten.
C10_Witness ==
    /\ pc = "done"
    /\ Len(atStart.meta.versions) = 2
    /\ tree[SymAPath] = "file"
    /\ tree[ModPath] = "file"
    /\ Matches(atStart.manifest.versions, version) # {}

=============================================================================
